---- MODULE Spec2Model ----
(***************************************************************************)
(* A model of ijq (src/main.go): an interactive front end of jq built on   *)
(* tview.  The filter field's callbacks (changed, done, autocomplete), the *)
(* goroutines they start, the initial evaluation goroutine and main's      *)
(* startup are modelled as they are written in main.go.                    *)
(*                                                                         *)
(* Text is a sequence of one-character strings (a few multi-character      *)
(* tokens stand for fixed pieces of jq syntax), so that the prefix of a    *)
(* filter (strings.LastIndexByte, text[0:pos]) is computed, not assumed.   *)
(* The content of a text view and of an output channel is a sequence of    *)
(* chunks, one per write, so that two writes are told from one.            *)
(***************************************************************************)
EXTENDS Naturals, Sequences, FiniteSets

\* ------------------------------------------------------------------ bounds

\* How many times the filter text may change in one session.
MaxEdits == 3

\* How many times ijq is started on one history file, and how many times the
\* filter text may change in each of these sessions.
MaxSessions == 2
MaxHistEdits == 1

\* How many times the filter text may change while completions are followed.
MaxTypes == 2

\* How many times the filter text may change while the runs of jq are followed.
MaxArgEdits == 1

\* How many times the filter text may change in a session followed from the
\* start of main.
MaxStartupEdits == 1

\* ------------------------------------------------------------- filter text

\* Filter texts of the interactive session: "", ".", ".a" and ".a|".
EvalTexts ==
    { <<>>, <<".">>, <<".", "a">>, <<".", "a", "|">> }

\* ---------------------------------------------------------------- Options

\* type Options struct: the seven flags (historyFile is kept apart, in
\* historyFile, as no flag of jq is derived from it).
OptionNames ==
    {"compact", "nullInput", "slurp", "rawOutput", "rawInput", "monochrome", "sortKeys"}

AllOptions == [OptionNames -> BOOLEAN]

\* Options{}: flag.BoolVar(..., false, ...) for every flag.
DefaultOptions == [n \in OptionNames |-> FALSE]

\* Options{monochrome: true}, the options of the suggestion fetch's Document.
MonochromeOptions == [DefaultOptions EXCEPT !["monochrome"] = TRUE]

\* ToSlice with the test of monochrome inverted.
ToSliceInverted(o) ==
    (IF o["compact"] THEN <<"-c">> ELSE <<>>)
    \o (IF o["nullInput"] THEN <<"-n">> ELSE <<>>)
    \o (IF o["slurp"] THEN <<"-s">> ELSE <<>>)
    \o (IF o["rawOutput"] THEN <<"-r">> ELSE <<>>)
    \o (IF o["rawInput"] THEN <<"-R">> ELSE <<>>)
    \o (IF o["monochrome"] THEN <<"-C">> ELSE <<>>)
    \o (IF o["sortKeys"] THEN <<"-S">> ELSE <<>>)

\* func (o *Options) ToSlice() []string
ToSlice(o) ==
    (IF o["compact"] THEN <<"-c">> ELSE <<>>)
    \o (IF o["nullInput"] THEN <<"-n">> ELSE <<>>)
    \o (IF o["slurp"] THEN <<"-s">> ELSE <<>>)
    \o (IF o["rawOutput"] THEN <<"-r">> ELSE <<>>)
    \o (IF o["rawInput"] THEN <<"-R">> ELSE <<>>)
    \o (IF ~o["monochrome"] THEN <<"-C">> ELSE <<>>)
    \o (IF o["sortKeys"] THEN <<"-S">> ELSE <<>>)

\* args := append(d.options.ToSlice(), filter): the argument list of jq.
FilterArgs(d, filter) == Append(ToSlice(d.options), filter)

\* ------------------------------------------------------------------ text

\* strings.LastIndexByte(text, '.'): the last position of "." in text, 1-based
\* here (0 when there is none; Go's is 0-based with -1 for none).
RECURSIVE LastIndexByte(_, _)
LastIndexByte(s, c) ==
    IF s = <<>> THEN 0
    ELSE IF s[Len(s)] = c THEN Len(s)
    ELSE LastIndexByte(SubSeq(s, 1, Len(s) - 1), c)

\* text[0:pos] for the 0-based pos of Go, which is position pos + 1 here: the
\* text before its last ".".
PrefixOf(s) == SubSeq(s, 1, LastIndexByte(s, ".") - 1)

\* prefix + "." + k
Candidate(prefix, k) == prefix \o <<".", k>>

\* for _, k := range keys { entries = append(entries, prefix+"."+k) }
BuildEntries(prefix, keys) == [i \in 1..Len(keys) |-> Candidate(prefix, keys[i])]

\* "[" + filt + "] | unique | first", filt being prefix + "| keys" or "keys".
KeysFilter(prefix) ==
    IF prefix # <<>>
    THEN <<"[">> \o prefix \o <<"| keys">> \o <<"] | unique | first">>
    ELSE <<"[", "keys", "] | unique | first">>

\* ------------------------------------------------------------ the engine

\* The loaded document, {"a":{"b":1,"c":2},"b":[1,2]}, as a text.
DocText == "doc"

\* A chunk of text: what one run of jq printed.  kind is "out" (a result),
\* "err" (jq's message), "keys" (a JSON list of strings) or "nums" (a JSON
\* list that is not one of strings); color is "ansi" (escape sequences, jq -C),
\* "tags" (tview's color tags) or "plain".
Chunk(kind, args, input, keys) ==
    [kind |-> kind, args |-> args, input |-> input, keys |-> keys,
     color |-> IF kind = "out" /\ \E i \in 1..Len(args) - 1 : args[i] = "-C"
               THEN "ansi" ELSE "plain"]

\* Whether jq compiles a path expression: "", or a text that starts with "."
\* and ends neither with "|" nor, being longer than ".", with ".".
Compiles(f) ==
    \/ f = <<>>
    \/ /\ f[1] = "."
       /\ f[Len(f)] # "|"
       /\ Len(f) > 1 => f[Len(f)] # "."

\* IsKeysFilter(f): f is the suggestion fetch's filter for some prefix.
IsKeysFilter(f) == f # <<>> /\ f[1] = "["

\* The prefix inside a suggestion fetch's filter.
KeysPrefix(f) == IF Len(f) = 3 THEN <<>> ELSE SubSeq(f, 2, Len(f) - 2)

\* jq's `keys` at a path of the document: the sorted keys of an object,
\* indices for an array, an error for a number (and for a path that does not
\* compile).
KeysAt(prefix) ==
    IF prefix = <<>> THEN [kind |-> "keys", keys |-> <<"a", "b">>]
    ELSE IF prefix = <<".">> THEN [kind |-> "keys", keys |-> <<"a", "b">>]
    ELSE IF prefix = <<".", "a">> THEN [kind |-> "keys", keys |-> <<"b", "c">>]
    ELSE IF prefix = <<".", "b">> THEN [kind |-> "nums", keys |-> <<>>]
    ELSE [kind |-> "err", keys |-> <<>>]

\* One run of jq with the argument list args and input on its standard input:
\* err is "none" (exit status 0) or "exit" (non-zero, an *exec.ExitError), out
\* its combined output.  With no input text and no -n, jq has no value to
\* filter and prints nothing.
Jq(args, input) ==
    LET f == args[Len(args)]
        nullInput == \E i \in 1..Len(args) - 1 : args[i] = "-n"
    IN  IF IsKeysFilter(f)
        THEN LET k == IF Compiles(KeysPrefix(f)) /\ ~nullInput
                      THEN KeysAt(KeysPrefix(f))
                      ELSE [kind |-> "err", keys |-> <<>>]
             IN  IF k.kind = "err"
                 THEN [err |-> "exit", out |-> <<Chunk("err", args, input, <<>>)>>]
                 ELSE IF input = "" /\ ~nullInput
                 THEN [err |-> "none", out |-> <<>>]
                 ELSE [err |-> "none", out |-> <<Chunk(k.kind, args, input, k.keys)>>]
        ELSE IF ~Compiles(f)
        THEN [err |-> "exit", out |-> <<Chunk("err", args, input, <<>>)>>]
        ELSE IF input = "" /\ ~nullInput
        THEN [err |-> "none", out |-> <<>>]
        ELSE [err |-> "none", out |-> <<Chunk("out", args, input, <<>>)>>]

\* tview.ANSIWriter: escape sequences become tview's color tags.
ANSIWriter(s) ==
    [i \in 1..Len(s) |-> IF s[i].color = "ansi" THEN [s[i] EXCEPT !.color = "tags"] ELSE s[i]]

\* TextView.GetText(true): the text with its color tags stripped.
GetTextStripped(s) ==
    [i \in 1..Len(s) |-> IF s[i].color = "tags" THEN [s[i] EXCEPT !.color = "plain"] ELSE s[i]]

\* ------------------------------------------------------------------ state

VARIABLES
    doc,          \* the Document: [input, options]
    historyFile,  \* options.historyFile ("" disables history)
    jqInstalled,  \* whether exec can start jq
    histFile,     \* the lines of the history file
    cmdline,      \* the command line and standard input:
                  \* [version, filterFile, args, stdin]
    phase,        \* where main is: "parseArgs", "read", "createApp", "run"
    proc,         \* the process: "run", "exit0" (main returned), "exit1"
    startFilter,  \* createApp's filter parameter
    history,      \* the history createApp loaded
    text,         \* the text of filterInput
    fieldColor,   \* filterInput's field text color
    inputView,    \* the text of inputView
    outputView,   \* the text of outputView
    errorView,    \* the text of errorView
    seq,          \* how many times the changed callback ran
    spawned,      \* goroutines of `go app.QueueUpdateDraw(...)` yet to send
    updates,      \* tview's queue of updates
    loop,         \* the event loop: [pc, req, out]
    initG,        \* the initial evaluation goroutine: [pc, orig, out]
    stopped,      \* app.Stop() was called
    stdout,       \* what was written to os.Stdout, one chunk sequence a write
    stderr,       \* what was written to os.Stderr, one text a write
    session,      \* how many times ijq was started on this history file
    file0,        \* the lines of the history file before the first start
    commits,      \* the filters committed so far, over all sessions
    filterMap,    \* the suggestion cache: prefix -> entries
    mutex,        \* who holds the mutex of filterMap: -1 (free) or a caller
    ac,           \* the autocomplete callback's running calls: [c, pc, text]
    fetches,      \* the suggestion fetch goroutines: [id, prefix, pc, entries]
    nfetch,       \* how many suggestion fetch goroutines were started
    suggestions,  \* the entries the field's drop-down list shows
    calls,        \* the callback's returned calls: [text, kind, result]
    jqCall        \* the last exec.Command("jq", args...): [site, filter, args]

envVars == <<doc, historyFile, jqInstalled, histFile, cmdline>>
mainVars == <<phase, proc, startFilter, history, session, file0>>
viewVars == <<text, fieldColor, inputView, outputView, errorView>>
loopVars == <<seq, spawned, updates, loop>>
exitVars == <<stopped, stdout, stderr, commits>>
acVars == <<filterMap, mutex, ac, fetches, nfetch, suggestions, calls>>

vars == <<envVars, mainVars, viewVars, loopVars, initG, exitVars, acVars, jqCall>>

\* The update function of changed event n, which closes over its text.
Request(n, t) == [n |-> n, text |-> t]

NoRequest == Request(0, <<>>)

Idle == [pc |-> "idle", req |-> NoRequest, out |-> <<>>]

\* The callers of the autocomplete callback: the event loop, and suggestion
\* fetch goroutine id (filterInput.Autocomplete(), main.go:386).
EventLoop == 0

\* No one holds the mutex.
Free == 0 - 1

\* Caller c is inside the autocomplete callback.
InCallback(c) == \E a \in ac : a.c = c

\* The process runs and the event loop of app.Run is between two events.
LoopIdle ==
    /\ proc = "run" /\ phase = "run"
    /\ loop.pc = "idle" /\ ~InCallback(EventLoop)

\* ------------------------------------------------------- Document.Filter

\* func (d *Document) Filter(filter string) (string, error): err is "none",
\* "exit" (jq ran and exited non-zero: an *exec.ExitError whose Stderr is jq's
\* output) or "spawn" (jq could not be started: not an ExitError).
Filter(d, filter) ==
    IF ~jqInstalled
    THEN [err |-> "spawn", out |-> <<>>, stderr |-> <<>>]
    ELSE LET r == Jq(FilterArgs(d, filter), d.input)
         IN  IF r.err # "none"
             THEN [err |-> "exit", out |-> <<>>, stderr |-> r.out]
             ELSE [err |-> "none", out |-> r.out, stderr |-> <<>>]

\* cmd := exec.Command("jq", args...) in d.Filter(filter), called at site.
Exec(site, d, filter) ==
    [site |-> site, filter |-> filter, args |-> FilterArgs(d, filter)]

\* No jq was run yet.
NoCall == [site |-> "none", filter |-> <<>>, args |-> <<>>]

\* ------------------------------------------------------ changed callback

\* SetChangedFunc(func(text string) { go app.QueueUpdateDraw(...) }): tview
\* calls it from the event loop when a key changed the field's text to t.
ChangedFunc(t) ==
    /\ LoopIdle /\ ~stopped
    /\ t # text
    /\ text' = t
    /\ seq' = seq + 1
    /\ spawned' = spawned \cup {Request(seq + 1, t)}
    /\ UNCHANGED <<envVars, acVars, jqCall, mainVars, fieldColor, inputView, outputView, errorView,
                   updates, loop, initG, exitVars>>

\* One of the goroutines started by the changed callback sends its update
\* function to the queue; the go statement orders no two of them.
QueueUpdateDraw(r) ==
    /\ proc = "run"
    /\ r \in spawned
    /\ spawned' = spawned \ {r}
    /\ updates' = Append(updates, r)
    /\ UNCHANGED <<envVars, acVars, jqCall, mainVars, viewVars, seq, loop, initG, exitVars>>

\* The event loop takes the next update function and runs it up to its call
\* of doc.Filter: errorView.Clear().  After app.Stop() the loop may still take
\* an update before it takes the event that ends it.
UpdateBegin ==
    /\ LoopIdle
    /\ updates # <<>>
    /\ loop' = [pc |-> "filter", req |-> Head(updates), out |-> <<>>]
    /\ updates' = Tail(updates)
    /\ errorView' = <<>>
    /\ UNCHANGED <<envVars, acVars, jqCall, mainVars, text, fieldColor, inputView, outputView,
                   seq, spawned, initG, exitVars>>

\* UpdateFailure with the output pane cleared as on success.
UpdateFailureClears(r) ==
    /\ fieldColor' = "maroon"
    /\ errorView' = IF r.err = "exit" THEN errorView \o ANSIWriter(r.stderr) ELSE errorView
    /\ loop' = Idle
    /\ outputView' = <<>>

\* The failure branch of the update function: the field turns maroon, jq's
\* message is printed to errorView if the error is an ExitError, return.
UpdateFailure(r) ==
    /\ fieldColor' = "maroon"
    /\ errorView' = IF r.err = "exit" THEN errorView \o ANSIWriter(r.stderr) ELSE errorView
    /\ loop' = Idle
    /\ UNCHANGED outputView

\* The success branch up to the write: the field turns silver, outputView.Clear().
UpdateSuccess(r) ==
    /\ fieldColor' = "silver"
    /\ outputView' = <<>>
    /\ loop' = [loop EXCEPT !.pc = "print", !.out = r.out]
    /\ UNCHANGED errorView

\* doc.Filter(text) returns in the update function.
UpdateFilter ==
    /\ proc = "run" /\ loop.pc = "filter"
    /\ LET r == Filter(doc, loop.req.text)
       IN  IF r.err # "none" THEN UpdateFailure(r) ELSE UpdateSuccess(r)
    /\ jqCall' = Exec("update", doc, loop.req.text)
    /\ UNCHANGED <<envVars, acVars, mainVars, text, inputView, seq, spawned, updates,
                   initG, exitVars>>

\* fmt.Fprint(outputWriter, out); outputView.ScrollToBeginning()
UpdatePrint ==
    /\ proc = "run" /\ loop.pc = "print"
    /\ outputView' = outputView \o ANSIWriter(loop.out)
    /\ loop' = Idle
    /\ UNCHANGED <<envVars, acVars, jqCall, mainVars, text, fieldColor, inputView, errorView,
                   seq, spawned, updates, initG, exitVars>>

\* ------------------------------------------------------------------ main

\* A readable file (of the document, or of a filter) and its content; any
\* other name ("bad", ".") cannot be read.
Readable(name) == name = <<"good">>

\* The data piped into standard input.
StdinText == "stdin"

\* The content of the file of -f, with the newline that ends it.
FilterFileText == <<".", "a", "\n">>

\* func stdinHasData() bool
stdinHasData == cmdline.stdin # "none"

\* func parseArgs() (Options, string, []string), after flag.Parse(): the
\* filter and the file arguments, or the exit of the process (-V: 0; the file
\* of -f unreadable, or nothing to read from: 1).
parseArgs ==
    LET args == cmdline.args
        nullInput == doc.options["nullInput"]
    IN  IF cmdline.version
        THEN [exit |-> "exit0", filter |-> <<>>, args |-> args]
        ELSE IF cmdline.filterFile # "none"
        THEN IF cmdline.filterFile = "unreadable"
             THEN [exit |-> "exit1", filter |-> <<>>, args |-> args]
             ELSE [exit |-> "run", filter |-> FilterFileText, args |-> args]
        ELSE IF Len(args) > 1 \/ (Len(args) > 0 /\ (stdinHasData \/ nullInput))
        THEN [exit |-> "run", filter |-> args[1], args |-> Tail(args)]
        ELSE IF Len(args) = 0 /\ ~stdinHasData /\ ~nullInput
        THEN [exit |-> "exit1", filter |-> <<>>, args |-> args]
        ELSE [exit |-> "run", filter |-> <<".">>, args |-> args]

\* options, filter, args := parseArgs(); doc := Document{options: options}
ParseArgs ==
    /\ proc = "run" /\ phase = "parseArgs"
    /\ proc' = parseArgs.exit
    /\ startFilter' = parseArgs.filter
    /\ cmdline' = [cmdline EXCEPT !.args = parseArgs.args]
    /\ phase' = IF parseArgs.exit = "run" THEN "read" ELSE phase
    /\ UNCHANGED <<doc, historyFile, jqInstalled, histFile, history, session, file0,
                   viewVars, loopVars, initG, exitVars, acVars, jqCall>>

\* for _, file := range args { if err := d.FromFile(file); err != nil { return err } }
\* as [err, input]: every file read replaces the input.
RECURSIVE FromFiles(_, _)
FromFiles(input, files) ==
    IF files = <<>> THEN [err |-> FALSE, input |-> input, stdin |-> cmdline.stdin]
    ELSE IF ~Readable(Head(files))
    THEN [err |-> TRUE, input |-> input, stdin |-> cmdline.stdin]
    ELSE FromFiles(DocText, Tail(files))

\* func (d *Document) FromStdin() error
FromStdin(input) ==
    IF ~stdinHasData
    THEN [err |-> TRUE, input |-> input, stdin |-> cmdline.stdin]
    ELSE [err |-> FALSE, input |-> StdinText, stdin |-> "read"]

\* Read without its test of nullInput.
ReadAlways(d, args) ==
    IF Len(args) > 0 THEN FromFiles(d.input, args) ELSE FromStdin(d.input)

\* func (d *Document) Read(args []string) error, as [err, input, stdin]: the
\* error, the input of d and the state of standard input after it.
Read(d, args) ==
    IF d.options["nullInput"]
    THEN [err |-> FALSE, input |-> d.input, stdin |-> cmdline.stdin]
    ELSE IF Len(args) > 0 THEN FromFiles(d.input, args)
    ELSE FromStdin(d.input)

\* if err := doc.Read(args); err != nil { log.Fatalln(err) }
ReadDocument ==
    /\ proc = "run" /\ phase = "read"
    /\ LET r == Read(doc, cmdline.args)
       IN  /\ doc' = [doc EXCEPT !.input = r.input]
           /\ cmdline' = [cmdline EXCEPT !.stdin = r.stdin]
           /\ proc' = IF r.err THEN "exit1" ELSE proc
           /\ phase' = IF r.err THEN phase ELSE "createApp"
    /\ UNCHANGED <<historyFile, jqInstalled, histFile, startFilter, history, session,
                   file0, viewVars, loopVars, initG, exitVars, acVars, jqCall>>

\* -------------------------------------------- initial evaluation goroutine

\* orig, err := doc.Filter("."); if err != nil { log.Fatalln(err) }
InitOrig ==
    /\ proc = "run" /\ initG.pc = "orig"
    /\ LET r == Filter(doc, <<".">>)
       IN  IF r.err # "none"
           THEN proc' = "exit1" /\ UNCHANGED initG
           ELSE initG' = [initG EXCEPT !.pc = "filter", !.orig = r.out] /\ UNCHANGED proc
    /\ jqCall' = Exec("orig", doc, <<".">>)
    /\ UNCHANGED <<envVars, acVars, phase, startFilter, history, session, file0, viewVars,
                   loopVars, exitVars>>

\* out, err := doc.Filter(filter); if err != nil { SetFieldTextColor(ColorMaroon) }
InitFilter ==
    /\ proc = "run" /\ initG.pc = "filter"
    /\ LET r == Filter(doc, startFilter)
       IN  /\ initG' = [initG EXCEPT !.pc = "write", !.out = r.out]
           /\ fieldColor' = IF r.err # "none" THEN "maroon" ELSE fieldColor
    /\ jqCall' = Exec("initial", doc, startFilter)
    /\ UNCHANGED <<envVars, acVars, mainVars, text, inputView, outputView, errorView,
                   loopVars, exitVars>>

\* fmt.Fprint(tview.ANSIWriter(inputView), orig); fmt.Fprint(outputWriter, out)
InitWrite ==
    /\ proc = "run" /\ initG.pc = "write"
    /\ inputView' = inputView \o ANSIWriter(initG.orig)
    /\ outputView' = outputView \o ANSIWriter(initG.out)
    /\ initG' = [initG EXCEPT !.pc = "done"]
    /\ UNCHANGED <<envVars, acVars, jqCall, mainVars, text, fieldColor, errorView, loopVars, exitVars>>

\* --------------------------------------------------------- done callback

\* func contains(arr []string, elem string) bool
contains(arr, elem) == \E i \in 1..Len(arr) : arr[i] = elem

\* func appendToFile(filepath, line string) error, as the file's lines after
\* it: no file is written for the path "".
appendToFile(filepath, file, line) ==
    IF filepath = "" THEN file ELSE Append(file, line)

\* readFromFile without the file's last line.
readFromFileShort(filepath, file) ==
    IF filepath = "" \/ file = <<>> THEN <<>> ELSE SubSeq(file, 1, Len(file) - 1)

\* func readFromFile(filepath string) ([]string, error), as the lines it
\* returns: nil when the file cannot be opened, as for the path "".
readFromFile(filepath, file) ==
    IF filepath = "" THEN <<>> ELSE file

\* SaveHistory with the check made of the last line of the loaded history only.
SaveHistoryLast(expression) ==
    IF expression # <<>> /\ (history = <<>> \/ history[Len(history)] # expression)
    THEN appendToFile(historyFile, histFile, expression)
    ELSE histFile

\* SaveHistory without the check of the loaded history.
SaveHistoryUnchecked(expression) ==
    IF expression # <<>>
    THEN appendToFile(historyFile, histFile, expression)
    ELSE histFile

\* The history file after the done callback's
\*   if expression != "" && !contains(history, expression) { appendToFile(...) }
SaveHistory(expression) ==
    IF expression # <<>> /\ ~contains(history, expression)
    THEN appendToFile(historyFile, histFile, expression)
    ELSE histFile

\* Commit without its call of app.Stop().
CommitNoStop ==
    /\ stopped' = stopped
    /\ stderr' = Append(stderr, text)
    /\ stdout' = Append(stdout, GetTextStripped(outputView))
    /\ histFile' = SaveHistory(text)
    /\ commits' = Append(commits, text)

\* case tcell.KeyEnter of the done callback: app.Stop(), the filter to
\* os.Stderr, the text of outputView to os.Stdout, the filter to the history.
Commit ==
    /\ stopped' = TRUE
    /\ stderr' = Append(stderr, text)
    /\ stdout' = Append(stdout, GetTextStripped(outputView))
    /\ histFile' = SaveHistory(text)
    /\ commits' = Append(commits, text)

\* SetDoneFunc(func(key tcell.Key) { switch key { case tcell.KeyEnter: ... } }):
\* tview calls it from the event loop for the keys that leave the field.
DoneFunc(key) ==
    /\ LoopIdle /\ ~stopped
    /\ IF key = "Enter" THEN Commit ELSE UNCHANGED <<exitVars, histFile>>
    /\ UNCHANGED <<doc, historyFile, jqInstalled, cmdline, mainVars, viewVars, loopVars, initG,
                   acVars, jqCall>>

\* app.Run() returns once the application is stopped, and main with it.
RunReturn ==
    /\ LoopIdle /\ stopped
    /\ proc' = "exit0"
    /\ UNCHANGED <<envVars, acVars, jqCall, phase, startFilter, history, session, file0, viewVars,
                   loopVars, initG, exitVars>>

\* -------------------------------------------------- autocomplete callback

\* The variables the autocomplete callback and the suggestion fetch leave alone.
otherVars == <<envVars, mainVars, fieldColor, inputView, outputView, errorView,
               loopVars, initG, exitVars>>

\* The Document of the suggestion fetch:
\*   d := Document{input: doc.input, options: Options{monochrome: true}}
FetchDoc == [input |-> doc.input, options |-> MonochromeOptions]

\* Store as a fresh map holding the one entry.
StoreAlone(m, prefix, entries) == [p \in {prefix} |-> entries]

\* filterMap[prefix] = entries
Store(m, prefix, entries) ==
    [p \in DOMAIN m \cup {prefix} |-> IF p = prefix THEN entries ELSE m[p]]

\* The callback returns result to caller c (a call that began with the field
\* text t): tview shows result as the field's drop-down list; a suggestion
\* fetch goroutine goes on to app.Draw().
Return(c, t, kind, result) ==
    /\ suggestions' = result
    /\ calls' = Append(calls, [c |-> c, text |-> t, kind |-> kind, result |-> result])
    /\ ac' = {a \in ac : a.c # c}

\* The suggestion fetch goroutine c has returned from filterInput.Autocomplete().
Returned(fs, c) ==
    {IF f.id = c THEN [f EXCEPT !.pc = "draw"] ELSE f : f \in fs}

\* The callback up to mutex.Lock(), called by c when the field's text is t:
\*   if filterInput.GetText() == "" && len(history) > 0 { return history }
\*   if pos := strings.LastIndexByte(text, '.'); pos != -1 { ... }
\*   return nil
AcEnter(c, t) ==
    IF t = <<>> /\ Len(history) > 0
    THEN /\ Return(c, t, "history", history)
         /\ fetches' = Returned(fetches, c)
         /\ UNCHANGED <<filterMap, mutex, nfetch>>
    ELSE IF LastIndexByte(t, ".") = 0
    THEN /\ Return(c, t, "none", <<>>)
         /\ fetches' = Returned(fetches, c)
         /\ UNCHANGED <<filterMap, mutex, nfetch>>
    ELSE /\ ac' = ac \cup {[c |-> c, pc |-> "lock", text |-> t]}
         /\ UNCHANGED <<filterMap, mutex, fetches, nfetch, suggestions, calls>>

\* A key changes the field's text to t and tview calls the autocomplete
\* callback from the event loop (the changed callback that follows is
\* ChangedFunc).
TypeText(t) ==
    /\ LoopIdle /\ ~stopped
    /\ t # text
    /\ text' = t
    /\ AcEnter(EventLoop, t)
    /\ UNCHANGED <<otherVars, jqCall>>

\* mutex.Lock() in the callback.
AcLock(a) ==
    /\ proc = "run"
    /\ a \in ac /\ a.pc = "lock"
    /\ mutex = Free
    /\ mutex' = a.c
    /\ ac' = (ac \ {a}) \cup {[a EXCEPT !.pc = "locked"]}
    /\ UNCHANGED <<otherVars, jqCall, text, filterMap, fetches, nfetch, suggestions, calls>>

\* AcLookup with the goroutine started whether or not the prefix is stored.
AcLookupRefetch(a) ==
    /\ proc = "run"
    /\ a \in ac /\ a.pc = "locked"
    /\ LET prefix == PrefixOf(a.text)
       IN  /\ IF prefix \in DOMAIN filterMap
              THEN Return(a.c, a.text, "hit", filterMap[prefix])
              ELSE Return(a.c, a.text, "miss", <<>>)
           /\ nfetch' = nfetch + 1
           /\ fetches' = Returned(fetches, a.c)
                  \cup {[id |-> nfetch + 1, prefix |-> prefix, pc |-> "filter",
                         entries |-> <<>>]}
    /\ mutex' = Free
    /\ UNCHANGED <<otherVars, jqCall, text, filterMap>>

\* AcLookup for a stored prefix without the deferred mutex.Unlock().
AcLookupHolds(a) ==
    /\ proc = "run"
    /\ a \in ac /\ a.pc = "locked"
    /\ LET prefix == PrefixOf(a.text)
       IN  IF prefix \in DOMAIN filterMap
           THEN /\ Return(a.c, a.text, "hit", filterMap[prefix])
                /\ fetches' = Returned(fetches, a.c)
                /\ UNCHANGED <<nfetch, mutex>>
           ELSE /\ Return(a.c, a.text, "miss", <<>>)
                /\ nfetch' = nfetch + 1
                /\ fetches' = Returned(fetches, a.c)
                       \cup {[id |-> nfetch + 1, prefix |-> prefix, pc |-> "filter",
                              entries |-> <<>>]}
                /\ mutex' = Free
    /\ UNCHANGED <<otherVars, jqCall, text, filterMap>>

\* The callback with the mutex held, to its return (the deferred
\* mutex.Unlock()):
\*   entries, ok := filterMap[prefix]; if ok { return entries }
\*   go func() { ... }()
\*   return nil
AcLookup(a) ==
    /\ proc = "run"
    /\ a \in ac /\ a.pc = "locked"
    /\ LET prefix == PrefixOf(a.text)
       IN  IF prefix \in DOMAIN filterMap
           THEN /\ Return(a.c, a.text, "hit", filterMap[prefix])
                /\ fetches' = Returned(fetches, a.c)
                /\ UNCHANGED nfetch
           ELSE /\ Return(a.c, a.text, "miss", <<>>)
                /\ nfetch' = nfetch + 1
                /\ fetches' = Returned(fetches, a.c)
                       \cup {[id |-> nfetch + 1, prefix |-> prefix, pc |-> "filter",
                              entries |-> <<>>]}
    /\ mutex' = Free
    /\ UNCHANGED <<otherVars, jqCall, text, filterMap>>

\* ---------------------------------------------- suggestion fetch goroutine

\* json.Unmarshal([]byte(out), &keys) for keys []string: ok only for a JSON
\* list of strings.
Unmarshal(out) ==
    IF Len(out) = 1 /\ out[1].kind = "keys"
    THEN [ok |-> TRUE, keys |-> out[1].keys]
    ELSE [ok |-> FALSE, keys |-> <<>>]

\* FetchFilter with an error answered by no keys: the goroutine goes on.
FetchFilterGoesOn(f) ==
    /\ proc = "run"
    /\ f \in fetches /\ f.pc = "filter"
    /\ jqCall' = Exec("fetch", FetchDoc, KeysFilter(f.prefix))
    /\ LET r == Filter(FetchDoc, KeysFilter(f.prefix))
           u == Unmarshal(r.out)
       IN  fetches' = (fetches \ {f})
               \cup {[f EXCEPT !.pc = "lock", !.entries = BuildEntries(f.prefix, u.keys)]}
    /\ UNCHANGED <<otherVars, text, filterMap, mutex, ac, nfetch, suggestions, calls>>

\* The goroutine up to its mutex.Lock(): the keys at the prefix are asked of
\* jq, for a Document with the input and the options {monochrome: true}; an
\* error of jq or of json.Unmarshal ends the goroutine.
FetchFilter(f) ==
    /\ proc = "run"
    /\ f \in fetches /\ f.pc = "filter"
    /\ jqCall' = Exec("fetch", FetchDoc, KeysFilter(f.prefix))
    /\ LET r == Filter(FetchDoc, KeysFilter(f.prefix))
           u == Unmarshal(r.out)
       IN  IF r.err # "none" \/ ~u.ok
           THEN fetches' = fetches \ {f}
           ELSE fetches' = (fetches \ {f})
                    \cup {[f EXCEPT !.pc = "lock", !.entries = BuildEntries(f.prefix, u.keys)]}
    /\ UNCHANGED <<otherVars, text, filterMap, mutex, ac, nfetch, suggestions, calls>>

\* FetchLock without the mutex: the goroutine goes on to store at once.
FetchLockNone(f) ==
    /\ proc = "run"
    /\ f \in fetches /\ f.pc = "lock"
    /\ fetches' = (fetches \ {f}) \cup {[f EXCEPT !.pc = "store"]}
    /\ UNCHANGED <<otherVars, jqCall, text, filterMap, mutex, ac, nfetch, suggestions, calls>>

\* mutex.Lock() in the goroutine.
FetchLock(f) ==
    /\ proc = "run"
    /\ f \in fetches /\ f.pc = "lock"
    /\ mutex = Free
    /\ mutex' = f.id
    /\ fetches' = (fetches \ {f}) \cup {[f EXCEPT !.pc = "store"]}
    /\ UNCHANGED <<otherVars, jqCall, text, filterMap, ac, nfetch, suggestions, calls>>

\* filterMap[prefix] = entries; mutex.Unlock()
FetchStore(f) ==
    /\ proc = "run"
    /\ f \in fetches /\ f.pc = "store"
    /\ filterMap' = Store(filterMap, f.prefix, f.entries)
    /\ mutex' = Free
    /\ fetches' = (fetches \ {f}) \cup {[f EXCEPT !.pc = "autocomplete"]}
    /\ UNCHANGED <<otherVars, jqCall, text, ac, nfetch, suggestions, calls>>

\* filterInput.Autocomplete(): tview calls the callback, from this goroutine,
\* with the text the field holds now.
FetchAutocomplete(f) ==
    /\ proc = "run"
    /\ f \in fetches /\ f.pc = "autocomplete"
    /\ ~InCallback(f.id)
    /\ AcEnter(f.id, text)
    /\ UNCHANGED <<otherVars, jqCall, text>>

\* app.Draw(), the end of the goroutine.
FetchDraw(f) ==
    /\ proc = "run"
    /\ f \in fetches /\ f.pc = "draw"
    /\ fetches' = fetches \ {f}
    /\ UNCHANGED <<otherVars, jqCall, text, filterMap, mutex, ac, nfetch, suggestions, calls>>

\* ------------------------------------------------- the interactive session

DoneKeys == {"Enter", "Escape"}

StartFilters == { <<".">>, <<".", "a">>, <<".", "a", "|">> }

\* The starting values of a process's variables before createApp: no widget
\* holds anything, nothing runs, nothing is written.
Fresh(t, fc, iv, ov, ev, h, sq, sp, up, lp, ig, st, so, se, fm, mu, a, fe, nf, su, ca, jc) ==
    /\ fm = <<>> /\ mu = Free /\ a = {} /\ fe = {} /\ nf = 0
    /\ su = <<>> /\ ca = <<>> /\ jc = NoCall
    /\ t = <<>> /\ fc = "silver"
    /\ iv = <<>> /\ ov = <<>> /\ ev = <<>>
    /\ h = <<>>
    /\ sq = 0 /\ sp = {} /\ up = <<>> /\ lp = Idle
    /\ ig = [pc |-> "none", orig |-> <<>>, out |-> <<>>]
    /\ st = FALSE /\ so = <<>> /\ se = <<>>

\* func createApp(doc Document, filter string): the history is read, the
\* field gets the filter (SetText, silver on black), the initial evaluation
\* goroutine is started; main then enters app.Run().
CreateApp ==
    /\ proc = "run" /\ phase = "createApp"
    /\ history' = readFromFile(historyFile, histFile)
    /\ text' = startFilter
    /\ fieldColor' = "silver"
    /\ initG' = [initG EXCEPT !.pc = "orig"]
    /\ phase' = "run"
    /\ UNCHANGED <<envVars, acVars, jqCall, proc, startFilter, session, file0, inputView, outputView,
                   errorView, loopVars, exitVars>>

\* The document ijq file.json loads, with no flag given.
DefaultDoc == [input |-> DocText, options |-> DefaultOptions]

\* The command line of ijq file.json, once parsed, with nothing on stdin.
FileCommand ==
    [version |-> FALSE, filterFile |-> "none", args |-> << <<"good">> >>, stdin |-> "none"]

\* main has parsed its arguments and read the document; createApp is next.
Init ==
    /\ doc = DefaultDoc
    /\ historyFile = "history" /\ histFile = <<>>
    /\ jqInstalled \in BOOLEAN
    /\ cmdline = FileCommand
    /\ session = 1 /\ file0 = <<>> /\ commits = <<>>
    /\ phase = "createApp" /\ proc = "run"
    /\ startFilter \in StartFilters
    /\ Fresh(text, fieldColor, inputView, outputView, errorView, history, seq,
             spawned, updates, loop, initG, stopped, stdout, stderr,
             filterMap, mutex, ac, fetches, nfetch, suggestions, calls, jqCall)

\* A key changes the field's text.
KeyEdit == \E t \in EvalTexts : seq < MaxEdits /\ ChangedFunc(t)

\* One of the started goroutines runs.
GoQueueUpdateDraw == \E r \in spawned : QueueUpdateDraw(r)

\* A key leaves the field.
KeyDone == \E key \in DoneKeys : DoneFunc(key)

Next ==
    \/ CreateApp
    \/ KeyEdit
    \/ GoQueueUpdateDraw
    \/ UpdateBegin
    \/ UpdateFilter
    \/ UpdatePrint
    \/ InitOrig
    \/ InitFilter
    \/ InitWrite
    \/ KeyDone
    \/ RunReturn

Spec == Init /\ [][Next]_vars

\* ------------------------------------------ sessions on one history file

\* Filter texts committed to the history: "", "." and ".a".
HistTexts == { <<>>, <<".">>, <<".", "a">> }

\* History files found at the first start: none or empty, or one with ".".
HistFiles == { <<>>, << <<".">> >> }

\* ijq is started again, on the history file as the last process left it.
Restart(filter) ==
    /\ proc # "run"
    /\ session' = session + 1
    /\ proc' = "run" /\ phase' = "createApp"
    /\ startFilter' = filter
    /\ Fresh(text', fieldColor', inputView', outputView', errorView', history', seq',
             spawned', updates', loop', initG', stopped', stdout', stderr',
             filterMap', mutex', ac', fetches', nfetch', suggestions', calls', jqCall')
    /\ UNCHANGED <<envVars, file0, commits>>

InitHistory ==
    /\ doc = DefaultDoc
    /\ \/ historyFile = "history" /\ histFile \in HistFiles
       \/ historyFile = "" /\ histFile = <<>>
    /\ jqInstalled = TRUE
    /\ cmdline = FileCommand
    /\ session = 1 /\ file0 = histFile /\ commits = <<>>
    /\ phase = "createApp" /\ proc = "run"
    /\ startFilter \in HistTexts
    /\ Fresh(text, fieldColor, inputView, outputView, errorView, history, seq,
             spawned, updates, loop, initG, stopped, stdout, stderr,
             filterMap, mutex, ac, fetches, nfetch, suggestions, calls, jqCall)

\* A key changes the field's text, in a session of SpecHistory.
KeyEditHistory == \E t \in HistTexts : seq < MaxHistEdits /\ ChangedFunc(t)

\* The next session starts.
NextSession == \E filter \in HistTexts : session < MaxSessions /\ Restart(filter)

NextHistory ==
    \/ CreateApp
    \/ KeyEditHistory
    \/ GoQueueUpdateDraw
    \/ UpdateBegin
    \/ UpdateFilter
    \/ UpdatePrint
    \/ InitOrig
    \/ InitFilter
    \/ InitWrite
    \/ KeyDone
    \/ RunReturn
    \/ NextSession

SpecHistory == InitHistory /\ [][NextHistory]_vars

\* ------------------------------------------------------------ completion

\* Filter texts completions are asked for: "", ".", ".a", ".a.", ".b." (.b is
\* an array: its keys are numbers) and ".a.b." (.a.b is a number: no keys).
CompleteTexts ==
    { <<>>, <<".">>, <<".", "a">>, <<".", "a", ".">>, <<".", "b", ".">>,
      <<".", "a", ".", "b", ".">> }

\* History files found at the start: none or empty, or one with "." and ".a".
CompleteFiles == { <<>>, << <<".">>, <<".", "a">> >> }

InitComplete ==
    /\ doc = DefaultDoc
    /\ historyFile = "history" /\ histFile \in CompleteFiles
    /\ jqInstalled = TRUE
    /\ cmdline = FileCommand
    /\ session = 1 /\ file0 = histFile /\ commits = <<>>
    /\ phase = "createApp" /\ proc = "run"
    /\ startFilter \in {<<>>, <<".">>}
    /\ Fresh(text, fieldColor, inputView, outputView, errorView, history, seq,
             spawned, updates, loop, initG, stopped, stdout, stderr,
             filterMap, mutex, ac, fetches, nfetch, suggestions, calls, jqCall)

\* The calls of the callback made for a key, returned or not.
Typed ==
    Cardinality({i \in 1..Len(calls) : calls[i].c = EventLoop})
        + Cardinality({a \in ac : a.c = EventLoop})

\* A key changes the field's text and completions are asked for.
KeyType == \E t \in CompleteTexts : Typed < MaxTypes /\ TypeText(t)

\* A call of the callback goes on.
CallbackLock == \E a \in ac : AcLock(a)
CallbackLookup == \E a \in ac : AcLookup(a)

\* A suggestion fetch goroutine goes on.
GoFetchFilter == \E f \in fetches : FetchFilter(f)
GoFetchLock == \E f \in fetches : FetchLock(f)
GoFetchStore == \E f \in fetches : FetchStore(f)
GoFetchAutocomplete == \E f \in fetches : FetchAutocomplete(f)
GoFetchDraw == \E f \in fetches : FetchDraw(f)

NextComplete ==
    \/ CreateApp
    \/ KeyType
    \/ CallbackLock
    \/ CallbackLookup
    \/ GoFetchFilter
    \/ GoFetchLock
    \/ GoFetchStore
    \/ GoFetchAutocomplete
    \/ GoFetchDraw

SpecComplete == InitComplete /\ [][NextComplete]_vars

\* Filter texts typed while the mutex is followed: ".", ".a" (one prefix) and
\* ".a.".
LiveTexts == { <<".">>, <<".", "a">>, <<".", "a", ".">> }

\* The start of SpecComplete with no history file.
InitLive == InitComplete /\ histFile = <<>>

\* A key changes the field's text and completions are asked for.
KeyTypeLive == \E t \in LiveTexts : Typed < MaxTypes /\ TypeText(t)

NextLive ==
    \/ CreateApp
    \/ KeyTypeLive
    \/ CallbackLock
    \/ CallbackLookup
    \/ GoFetchFilter
    \/ GoFetchLock
    \/ GoFetchStore
    \/ GoFetchAutocomplete
    \/ GoFetchDraw

\* The completions with the goroutines scheduled: a goroutine that can take
\* the mutex, or that holds it, runs on.
FairComplete ==
    /\ InitLive /\ [][NextLive]_vars
    /\ WF_vars(CallbackLock) /\ WF_vars(CallbackLookup)
    /\ WF_vars(GoFetchLock) /\ WF_vars(GoFetchStore)

\* --------------------------------------------------------------- startup

\* Filter texts typed in a session followed from the start of main.
StartupTexts == { <<".">>, <<".", "a">> }

\* The positional arguments: at most two of "good" (a readable file), "bad"
\* (an unreadable one) and "." (a filter).
ArgTokens == { <<"good">>, <<"bad">>, <<".">> }
ArgLists ==
    {<<>>} \cup {<<a>> : a \in ArgTokens} \cup {<<a, b>> : a \in ArgTokens, b \in ArgTokens}

\* The start of main, for every command line with or without -n, -V and -f,
\* with or without data on standard input and with or without jq.
InitStartup ==
    /\ \E n \in BOOLEAN :
          doc = [input |-> "", options |-> [DefaultOptions EXCEPT !["nullInput"] = n]]
    /\ historyFile = "history" /\ histFile = <<>>
    /\ jqInstalled \in BOOLEAN
    /\ cmdline \in [version : BOOLEAN, filterFile : {"none", "ok", "unreadable"},
                    args : ArgLists, stdin : {"none", "data"}]
    /\ session = 1 /\ file0 = <<>> /\ commits = <<>>
    /\ phase = "parseArgs" /\ proc = "run"
    /\ startFilter = <<>>
    /\ Fresh(text, fieldColor, inputView, outputView, errorView, history, seq,
             spawned, updates, loop, initG, stopped, stdout, stderr,
             filterMap, mutex, ac, fetches, nfetch, suggestions, calls, jqCall)

\* A key changes the field's text, in a session followed from the start.
KeyEditStartup == \E t \in StartupTexts : seq < MaxStartupEdits /\ ChangedFunc(t)

NextStartup ==
    \/ ParseArgs
    \/ ReadDocument
    \/ CreateApp
    \/ InitOrig
    \/ InitFilter
    \/ InitWrite
    \/ KeyEditStartup
    \/ GoQueueUpdateDraw
    \/ UpdateBegin
    \/ UpdateFilter
    \/ UpdatePrint
    \/ KeyDone
    \/ RunReturn

SpecStartup == InitStartup /\ [][NextStartup]_vars

\* ------------------------------------------------------------ runs of jq

\* Filter texts typed while the runs of jq are followed: "", which asks for
\* no completion, and ".a.", which asks for the keys of .a.
ArgTexts == { <<>>, <<".", "a", ".">> }

\* Every configuration: main has parsed the flags and read the document (no
\* input is read with -n); createApp is next.
InitArgs ==
    /\ \E o \in AllOptions :
          doc = [input |-> IF o["nullInput"] THEN "" ELSE DocText, options |-> o]
    /\ historyFile = "history" /\ histFile = <<>>
    /\ jqInstalled = TRUE
    /\ cmdline = FileCommand
    /\ session = 1 /\ file0 = <<>> /\ commits = <<>>
    /\ phase = "createApp" /\ proc = "run"
    /\ startFilter = <<".", "a">>
    /\ Fresh(text, fieldColor, inputView, outputView, errorView, history, seq,
             spawned, updates, loop, initG, stopped, stdout, stderr,
             filterMap, mutex, ac, fetches, nfetch, suggestions, calls, jqCall)

\* A key changes the field's text to t: tview calls the autocomplete callback
\* and then the changed callback, both from the event loop.
KeyArgs ==
    \E t \in ArgTexts :
        /\ seq < MaxArgEdits
        /\ LoopIdle /\ ~stopped
        /\ t # text
        /\ text' = t
        /\ AcEnter(EventLoop, t)
        /\ seq' = seq + 1
        /\ spawned' = spawned \cup {Request(seq + 1, t)}
        /\ UNCHANGED <<envVars, jqCall, mainVars, fieldColor, inputView, outputView,
                       errorView, updates, loop, initG, exitVars>>

NextArgs ==
    \/ CreateApp
    \/ InitOrig
    \/ InitFilter
    \/ InitWrite
    \/ KeyArgs
    \/ GoQueueUpdateDraw
    \/ UpdateBegin
    \/ UpdateFilter
    \/ UpdatePrint
    \/ CallbackLock
    \/ CallbackLookup
    \/ GoFetchFilter
    \/ GoFetchLock
    \/ GoFetchStore
    \/ GoFetchAutocomplete
    \/ GoFetchDraw

SpecArgs == InitArgs /\ [][NextArgs]_vars

\* ------------------------------------------------------------------ claims

\* Every evaluation that was requested has been applied: no goroutine is yet
\* to send, the queue is empty, the loop is between events and the initial
\* evaluation goroutine has written.
Quiescent ==
    /\ proc = "run" /\ loop.pc = "idle"
    /\ spawned = {} /\ updates = <<>>
    /\ initG.pc = "done"

\* What the output pane shows of a successful evaluation of filter t.
Shown(t) == ANSIWriter(Filter(doc, t).out)

\* C1 (as claimed): once every evaluation requested has completed, and the
\* filter requested last evaluates successfully, the output pane shows the
\* output of that last request.
C1_LastRequestShown ==
    (Quiescent /\ seq >= 2 /\ Filter(doc, text).err = "none")
        => \E i \in 1..Len(outputView) : <<outputView[i]>> = Shown(text)

\* A step of the event loop inside an update function whose evaluation fails:
\* it takes the function, or it returns from it.
FailingUpdateStep ==
    \/ /\ loop.pc = "idle" /\ loop'.pc = "filter"
       /\ Filter(doc, loop'.req.text).err # "none"
    \/ loop.pc = "filter" /\ loop'.pc = "idle"

\* C2: applying a failed evaluation leaves the output pane as it was.
C2_FailureKeepsOutput == [][FailingUpdateStep => outputView' = outputView]_vars

\* C2's case: a failure was applied (jq's message is shown) over a non-empty
\* output pane.
C2_Witness ==
    /\ seq > 0 /\ loop.pc = "idle"
    /\ fieldColor = "maroon" /\ errorView # <<>>
    /\ outputView # <<>>

C4_OutputOfSavedFilter ==
    [][(~stopped /\ stopped' /\ Quiescent)
          => stdout'[1] = GetTextStripped(ANSIWriter(Filter(doc, stderr'[1]).out))]_vars

\* How many times e occurs in the sequence s.
Count(e, s) == Cardinality({i \in 1..Len(s) : s[i] = e})

\* C5: with a history file, after two commits made in consecutive sessions on
\* a file that held neither filter: the same non-empty filter committed twice
\* is stored once; two different non-empty filters are stored both, in the
\* order of their commits.
C5_HistoryDedup ==
    (historyFile # "" /\ Len(commits) = 2)
        => LET e1 == commits[1]
               e2 == commits[2]
           IN  /\ (e1 = e2 /\ e1 # <<>>) => Count(e1, histFile) = 1
               /\ (e1 # e2 /\ e1 # <<>> /\ e2 # <<>>
                     /\ ~contains(file0, e1) /\ ~contains(file0, e2))
                      => histFile = file0 \o <<e1, e2>>

\* C5's case: the second session committed the filter the first one
\* committed, which the file did not hold before.
C5_Witness ==
    /\ historyFile # "" /\ session = 2 /\ Len(commits) = 2
    /\ commits[1] = commits[2] /\ commits[1] # <<>>
    /\ ~contains(file0, commits[1])
    /\ history # file0

\* Calls i and j of the callback looked the same prefix up in the cache.
SamePrefix(i, j) ==
    /\ calls[i].kind \in {"hit", "miss"} /\ calls[j].kind \in {"hit", "miss"}
    /\ PrefixOf(calls[i].text) = PrefixOf(calls[j].text)

\* The calls of the callback that started a suggestion fetch.
Misses == {i \in 1..Len(calls) : calls[i].kind = "miss"}

\* C6 (as claimed): of two calls for one prefix the second is served from the
\* cache (it starts no fetch) and returns what the first returned.
C6_SecondCallFromCache ==
    \A i, j \in 1..Len(calls) :
        (i < j /\ SamePrefix(i, j))
            => calls[j].kind = "hit" /\ calls[j].result = calls[i].result

\* C6 (amended): once a call for a prefix was served from the cache, every
\* later call for that prefix is, with the same list; a call that finds no
\* list stored returns none and starts a fetch, and only such calls do.
C6_CachedCallsAgree ==
    /\ \A i, j \in 1..Len(calls) :
           (i < j /\ SamePrefix(i, j) /\ calls[i].kind = "hit")
               => calls[j].kind = "hit" /\ calls[j].result = calls[i].result
    /\ \A i \in Misses : calls[i].result = <<>>
    /\ nfetch = Cardinality(Misses)

\* C6's case: two calls for one prefix, made with different texts, were both
\* served a stored, non-empty list.
C6_Witness ==
    \E i, j \in 1..Len(calls) :
        /\ i < j /\ SamePrefix(i, j)
        /\ calls[i].text # calls[j].text
        /\ calls[i].kind = "hit" /\ calls[j].kind = "hit"
        /\ calls[j].result # <<>>

\* C7: a call of the callback with the empty text returns the lines of the
\* history file as they were at the start, in the file's order (none for an
\* empty or missing file), and starts no fetch.
C7_EmptyTextGivesHistory ==
    \A i \in 1..Len(calls) :
        calls[i].text = <<>>
            => /\ calls[i].result = file0
               /\ calls[i].kind = (IF file0 # <<>> THEN "history" ELSE "none")

\* C7's case: the callback was called with the empty text and a history of
\* two lines.
C7_Witness ==
    \E i \in 1..Len(calls) :
        /\ calls[i].text = <<>>
        /\ Len(file0) = 2 /\ calls[i].result = file0
        /\ nfetch = 0

\* The flags of jq and the option each is derived from; -C is derived from
\* monochrome being off.
FlagOf ==
    [compact |-> "-c", nullInput |-> "-n", slurp |-> "-s", rawOutput |-> "-r",
     rawInput |-> "-R", monochrome |-> "-C", sortKeys |-> "-S"]

\* Option n of o asks for its flag.
Asks(o, n) == IF n = "monochrome" THEN ~o[n] ELSE o[n]

\* args is one flag for each option of o that asks for it, no flag twice and
\* none else, and then the filter, with nothing after it.
ArgsDerivedFrom(args, o, filter) ==
    /\ Len(args) = Cardinality({n \in OptionNames : Asks(o, n)}) + 1
    /\ args[Len(args)] = filter
    /\ \A n \in OptionNames :
           Asks(o, n) <=> \E i \in 1..Len(args) - 1 : args[i] = FlagOf[n]

\* C8 (as claimed): every run of jq has the flags of the Configuration and
\* then the filter.
C8_ArgsFromConfiguration ==
    jqCall.site # "none" => ArgsDerivedFrom(jqCall.args, doc.options, jqCall.filter)

\* C8 (amended): every run of jq has the flags of the options of the Document
\* it is run for and then the filter: the Configuration for an evaluation of
\* a filter of the user, {monochrome: true} for a suggestion fetch.
C8_ArgsFromDocumentOptions ==
    jqCall.site # "none"
        => ArgsDerivedFrom(jqCall.args,
                           IF jqCall.site = "fetch" THEN MonochromeOptions ELSE doc.options,
                           jqCall.filter)

\* C8's case: jq was run for a filter of the user under the configuration
\* that asks for all seven flags.
C8_Witness ==
    /\ jqCall.site = "update"
    /\ \A n \in OptionNames : Asks(doc.options, n)
    /\ Len(jqCall.args) = 8

\* ---------------------------------------------------------------- C9, C10

\* A user event was handled: ChangedFunc ran for a key, or DoneFunc committed.
UserEventHandled == seq > 0 \/ stopped

\* C9: a process that exits non-zero on a fatal startup condition (jq absent
\* or not spawnable, an input file unreadable, nothing to read from) does so
\* before the interactive loop is entered: no user event was handled.
C9_FatalBeforeLoop == proc = "exit1" => ~UserEventHandled

\* C10: with nullInput set, Read returns without error and leaves the input
\* empty and standard input unread, whatever the file arguments are and
\* whether or not standard input has data: main goes on to createApp.
C10_NullInputReadsNothing ==
    [][(phase = "read" /\ proc = "run" /\ doc.options["nullInput"])
        => /\ proc' = "run" /\ phase' = "createApp"
           /\ doc'.input = "" /\ cmdline'.stdin = cmdline.stdin]_vars

\* C10's case: under -n, with an unreadable file among the arguments and data
\* on standard input, Read has returned and the application is created.
C10_Witness ==
    /\ doc.options["nullInput"] /\ phase = "run" /\ proc = "run"
    /\ cmdline.args = << <<"bad">> >> /\ cmdline.stdin = "data"
    /\ doc.input = ""

\* --------------------------------------------------------------- C11..C13

\* A call of doc.Filter has not returned: that of an update function, of the
\* initial evaluation goroutine or of a suggestion fetch goroutine.
EngineCallPending ==
    \/ loop.pc = "filter"
    \/ initG.pc \in {"orig", "filter"}
    \/ \E f \in fetches : f.pc = "filter"

\* C11 (as claimed): while a call of jq has not returned, the event loop can
\* still handle a user event: a key that leaves the field (a commit).
C11_LoopFreeDuringEngineCall ==
    (proc = "run" /\ phase = "run" /\ ~stopped /\ EngineCallPending) => ENABLED KeyDone

\* The step is one of the event loop running an update function.
UpdateStep == loop.pc # "idle" \/ loop'.pc # "idle"

\* C12 (as claimed): once the application runs, the output pane, the error
\* pane, the input pane and the field's color change only in steps of the
\* event loop.
C12_DisplayChangedByLoopOnly ==
    [][(phase = "run" /\ phase' = "run"
        /\ <<fieldColor, inputView, outputView, errorView>>'
               # <<fieldColor, inputView, outputView, errorView>>)
        => UpdateStep]_vars

\* C13 (as claimed): an evaluation that finds jq cannot be started ends the
\* process; here the evaluation of an update function.
C13_SpawnFailureIsFatal ==
    [][(~jqInstalled /\ loop.pc = "filter" /\ loop'.pc # "filter") => proc' = "exit1"]_vars

\* -------------------------------------------------------------------- C14

\* The step is a commit: the done callback called for Enter.
CommitStep == ~stopped /\ stopped'

\* C14 (as claimed): with a history file, a commit appends the filter to the
\* file exactly when it is non-empty and is not the last line of the history.
C14_AppendUnlessMostRecent ==
    [][(CommitStep /\ historyFile # "")
        => histFile' = IF text # <<>> /\ (history = <<>> \/ history[Len(history)] # text)
                       THEN Append(histFile, text)
                       ELSE histFile]_vars

\* C14 (amended): a commit appends the filter to the file exactly when there
\* is a history file, the filter is non-empty and no line of the history
\* loaded at the start is the filter.
C14_AppendUnlessInHistory ==
    [][CommitStep
        => histFile' = IF /\ historyFile # "" /\ text # <<>>
                          /\ \A i \in 1..Len(history) : history[i] # text
                       THEN Append(histFile, text)
                       ELSE histFile]_vars

\* C14's case: the filter committed is an older line of the loaded history,
\* not its last one, and the file is as it was loaded.
C14_Witness ==
    /\ stopped /\ historyFile # "" /\ Len(stderr) = 1
    /\ Len(history) > 1
    /\ history[1] = text /\ history[Len(history)] # text
    /\ histFile = history

\* -------------------------------------------------------------------- C15

\* The calls of the callback that return in the step from under the mutex.
Looked == {a \in ac : a.pc = "locked" /\ a \notin ac'}

\* C15: a suggestion fetch goroutine is started only by a call of the
\* callback that finds its prefix not stored; a call that finds it stored
\* returns the stored list and starts none; no prefix is ever removed.
C15_FetchOnlyOnMiss ==
    [][/\ DOMAIN filterMap \subseteq DOMAIN filterMap'
       /\ \A a \in Looked :
              IF PrefixOf(a.text) \in DOMAIN filterMap
              THEN /\ nfetch' = nfetch /\ fetches' \subseteq Returned(fetches, a.c)
                   /\ calls'[Len(calls')].kind = "hit"
                   /\ calls'[Len(calls')].result = filterMap[PrefixOf(a.text)]
              ELSE nfetch' = nfetch + 1
       /\ nfetch' # nfetch
              => \E a \in Looked : PrefixOf(a.text) \notin DOMAIN filterMap]_vars

\* C15's case: a key asked for a prefix a fetch had stored before, and got
\* the stored, non-empty list; the first call for the prefix started the one
\* fetch there was.
C15_Witness ==
    /\ nfetch = 1
    /\ \E i, j \in 1..Len(calls) :
           /\ i < j /\ SamePrefix(i, j)
           /\ calls[i].kind = "miss"
           /\ calls[j].kind = "hit" /\ calls[j].c = EventLoop
           /\ calls[j].result # <<>>
           /\ calls[j].result = filterMap[PrefixOf(calls[j].text)]

\* -------------------------------------------------------------------- C16

\* The suggestion fetch f fails: jq exits with an error, or what it printed
\* is not a JSON list of strings.
FetchFails(f) ==
    LET r == Filter(FetchDoc, KeysFilter(f.prefix))
    IN  r.err # "none" \/ ~Unmarshal(r.out).ok

\* C16: the step in which a failing suggestion fetch gets jq's answer ends
\* the goroutine (no filterInput.Autocomplete(), no app.Draw() follows) and
\* changes neither the cache, nor a pane, nor the field's color, nor the
\* suggestion list.
C16_FailedFetchIsSilent ==
    [][\A f \in fetches :
           (f.pc = "filter" /\ f \notin fetches' /\ FetchFails(f))
               => /\ \A g \in fetches' : g.id # f.id
                  /\ UNCHANGED <<filterMap, mutex, ac, suggestions, calls,
                                 fieldColor, inputView, outputView, errorView>>]_vars

\* C16's case: two fetches were started and both failed, one for ".b" (keys
\* that are numbers) and one for ".a.b" (jq's error): none runs any more and
\* nothing is stored.
C16_Witness ==
    /\ nfetch = 2 /\ fetches = {} /\ ac = {}
    /\ DOMAIN filterMap = {}
    /\ Len(calls) = 2
    /\ {calls[1].text, calls[2].text} = { <<".", "b", ".">>, <<".", "a", ".", "b", ".">> }
    /\ suggestions = <<>>

\* -------------------------------------------------------------------- C17

\* The list stored for prefix p is whole: a candidate p.k for every key k jq
\* gives at p, in jq's order.
WholeList(p) ==
    LET keys == KeysAt(p).keys
    IN  /\ Len(filterMap[p]) = Len(keys) /\ keys # <<>>
        /\ \A i \in 1..Len(keys) : filterMap[p][i] = p \o <<".">> \o <<keys[i]>>

\* C17: every prefix of the cache has a whole list; the cache is written only
\* by a fetch goroutine that holds the mutex, which stores its own list for
\* its own prefix and leaves the other prefixes alone; the cache is read only
\* by a call of the callback that holds the mutex.
C17_CacheUnderMutex ==
    /\ [](\A p \in DOMAIN filterMap : WholeList(p))
    /\ [][/\ filterMap' # filterMap
              => \E f \in fetches :
                     /\ f.pc = "store" /\ mutex = f.id
                     /\ filterMap' = [p \in DOMAIN filterMap \cup {f.prefix} |->
                                         IF p = f.prefix THEN f.entries ELSE filterMap[p]]
          /\ \A f \in fetches : (f.pc = "store" /\ f \notin fetches') => mutex = f.id
          /\ \A a \in Looked : mutex = a.c]_vars

\* C17's case: of two fetches for one prefix one holds the mutex and is about
\* to store its list, the other waits for the mutex.
C17_Witness ==
    \E f, g \in fetches :
        /\ f.id # g.id /\ f.prefix = g.prefix
        /\ f.pc = "store" /\ mutex = f.id
        /\ g.pc = "lock"

\* --------------------------------------------------------------- C18, C19

\* C18 (as claimed), for the initial evaluation: once the initial evaluation
\* goroutine has written, no key having changed the filter, the display
\* matches the result for the startup filter: on success its output in the
\* output pane, a silver field and an empty error pane; on failure a maroon
\* field and jq's message in the error pane.
C18_DisplayMatchesResult ==
    (proc = "run" /\ initG.pc = "done" /\ seq = 0)
        => LET r == Filter(doc, startFilter)
           IN  IF r.err = "none"
               THEN /\ outputView = ANSIWriter(r.out)
                    /\ fieldColor = "silver" /\ errorView = <<>>
               ELSE /\ fieldColor = "maroon"
                    /\ errorView = ANSIWriter(r.stderr)

\* The filters evaluated in a session: the startup filter and the texts typed.
Evaluated == StartFilters \cup EvalTexts

\* C19 (as claimed): the output pane holds nothing, or the output of one
\* successful evaluation.
C19_OutputOfOneEvaluation ==
    \/ outputView = <<>>
    \/ \E t \in Evaluated : Filter(doc, t).err = "none" /\ outputView = Shown(t)

\* -------------------------------------------------------------------- C20

\* The callers of the autocomplete callback and the goroutines there can be.
Tasks == 0 .. (2 * MaxTypes)

\* Task c waits in mutex.Lock(): as a call of the callback, or as a
\* suggestion fetch goroutine about to store.
Waits(c) ==
    \/ \E a \in ac : a.c = c /\ a.pc = "lock"
    \/ \E f \in fetches : f.id = c /\ f.pc = "lock"

\* C20: the mutex is held only by a call of the callback between its Lock
\* and its return, or by a fetch goroutine between its Lock and its Unlock
\* (not while it runs jq, nor when it calls filterInput.Autocomplete()); a
\* mutex that is held is released, and a task that waits for it gets it.
C20_MutexNeverStuck ==
    /\ [](mutex # Free
            => \/ \E a \in ac : a.c = mutex /\ a.pc = "locked"
               \/ \E f \in fetches : f.id = mutex /\ f.pc = "store")
    /\ [](\A f \in fetches : f.id <= 2 * MaxTypes)
    /\ (mutex # Free) ~> (mutex = Free)
    /\ \A c \in Tasks : Waits(c) ~> ~Waits(c)

\* C20's case: a call of the callback waits for the mutex while a fetch
\* goroutine holds it.
C20_Witness ==
    \E a \in ac, f \in fetches :
        /\ a.pc = "lock"
        /\ f.pc = "store" /\ mutex = f.id /\ a.c # f.id

====
